---- MODULE Spec2Model ----
(***************************************************************************)
(* Model of remove-x-user-id.py: four regular-expression substitutions     *)
(* applied in sequence to the text of one file, and the command-line       *)
(* driver that reads the file, compares and conditionally writes it back.  *)
(*                                                                         *)
(* A text is a sequence of tokens.  Each token stands for one of the       *)
(* literal pieces that the four patterns name (so that a pattern literal   *)
(* matches exactly one token), for a whitespace character, or for any      *)
(* other character.                                                        *)
(***************************************************************************)
EXTENDS Integers, Sequences, FiniteSets, TLC

\* ---------------------------------------------------------------- tokens
H  == "headers:"
LB == "{"
RB == "}"
X  == "'x-user-id':"
U  == "user"
Q  == "?"
I  == ".id"
O  == "||"
E  == "''"
C  == ","
NL == "NL"
SP == "SP"
T  == "'Content-Type':"
J  == "'application/json'"
Z  == "z"

\* \s of Python's re: the line break and every other whitespace character
Whitespace == {NL, SP}

\* ------------------------------------------------- regular expressions
\* A pattern is a sequence of nodes: a literal token, \s* (greedy), a greedy
\* optional group (...)?, or the closing parenthesis of capture group 1.
Lit(c)  == [t |-> "lit",  c |-> c,  r |-> <<>>]
Ws      == [t |-> "ws",   c |-> "", r |-> <<>>]
Opt(r)  == [t |-> "opt",  c |-> "", r |-> r]
EndGrp1 == [t |-> "grp1", c |-> "", r |-> <<>>]

NoMatch == <<0, 0>>

\* length of the run of whitespace tokens of s that starts at position i
RECURSIVE WsRun(_, _)
WsRun(s, i) ==
    IF i <= Len(s) /\ s[i] \in Whitespace THEN 1 + WsRun(s, i + 1) ELSE 0

\* Backtracking match of pattern p against s from position i, as re does it:
\* greedy alternatives first, the first success wins.  The result is
\* <<position after the match, position after capture group 1>>, or NoMatch.
RECURSIVE Match(_, _, _, _), WsMatch(_, _, _, _, _)
Match(p, s, i, g) ==
    IF Len(p) = 0 THEN <<i, g>>
    ELSE LET n    == Head(p)
             rest == Tail(p)
         IN  CASE n.t = "lit" ->
                    IF i <= Len(s) /\ s[i] = n.c
                    THEN Match(rest, s, i + 1, g) ELSE NoMatch
               [] n.t = "ws" -> WsMatch(rest, s, i, i + WsRun(s, i), g)
               [] n.t = "opt" ->
                    LET m == Match(n.r \o rest, s, i, g)
                    IN  IF m # NoMatch THEN m ELSE Match(rest, s, i, g)
               [] n.t = "grp1" -> Match(rest, s, i, i)

\* \s* has taken the tokens i..j-1; give them back one at a time on failure
WsMatch(rest, s, i, j, g) ==
    LET m == Match(rest, s, j, g)
    IN  IF m # NoMatch THEN m
        ELSE IF j = i THEN NoMatch
        ELSE WsMatch(rest, s, i, j - 1, g)

\* A replacement template: optionally \1, then literal text.
Repl(g1, lit) == [g1 |-> g1, lit |-> lit]

Expand(repl, s, i, m) ==
    (IF repl.g1 THEN SubSeq(s, i, m[2] - 1) ELSE <<>>) \o repl.lit

\* re.sub(p, repl, s): replace every non-overlapping match, leftmost first.
\* (None of the four patterns matches the empty text.)
RECURSIVE SubFrom(_, _, _, _)
SubFrom(p, repl, s, i) ==
    IF i > Len(s) THEN <<>>
    ELSE LET m == Match(p, s, i, 0)
         IN  IF m # NoMatch
             THEN Expand(repl, s, i, m) \o SubFrom(p, repl, s, m[1])
             ELSE <<s[i]>> \o SubFrom(p, repl, s, i + 1)

re_sub(p, repl, s) == SubFrom(p, repl, s, 1)

\* 'x-user-id':\s*user\??\.id\s*(?:\|\|\s*'')?\s*
UserIdEntry ==
    <<Lit(X), Ws, Lit(U), Opt(<<Lit(Q)>>), Lit(I), Ws,
      Opt(<<Lit(O), Ws, Lit(E)>>), Ws>>

pattern1 ==
    <<Lit(H), Ws, Lit(LB), Ws>> \o UserIdEntry
        \o <<Lit(RB), Opt(<<Lit(C)>>), Ws, Lit(NL)>>

pattern2 ==
    <<Opt(<<Lit(C)>>), Ws, Lit(NL), Ws>> \o UserIdEntry \o <<Opt(<<Lit(C)>>)>>

\* pattern 3 without its "headers:" prefix
pattern3_AnyMapping ==
    <<Lit(LB), Ws, Lit(RB), Opt(<<Lit(C)>>), Ws, Lit(NL)>>

pattern3 ==
    <<Lit(H), Ws, Lit(LB), Ws, Lit(RB), Opt(<<Lit(C)>>), Ws, Lit(NL)>>

pattern4 ==
    <<Lit(LB), Ws, Lit(T), Ws, Lit(J), EndGrp1, Lit(C), Ws, Lit(NL), Ws,
      Lit(RB)>>

Empty == Repl(FALSE, <<>>)

\* a closing brace indented by 4 spaces
Reindent4 == Repl(TRUE, <<NL, SP, SP, SP, SP, RB>>)

\* r"\1\n        }"
Reindent == Repl(TRUE, <<NL, SP, SP, SP, SP, SP, SP, SP, SP, RB>>)

\* re.sub(p, repl, s, count=1): only the leftmost match is replaced
RECURSIVE SubFirstFrom(_, _, _, _)
SubFirstFrom(p, repl, s, i) ==
    IF i > Len(s) THEN <<>>
    ELSE LET m == Match(p, s, i, 0)
         IN  IF m # NoMatch
             THEN Expand(repl, s, i, m) \o SubSeq(s, m[1], Len(s))
             ELSE <<s[i]>> \o SubFirstFrom(p, repl, s, i + 1)

Rule2_FirstOnly(c) == SubFirstFrom(pattern2, Empty, c, 1)

Rule1(c) == re_sub(pattern1, Empty, c)
Rule2(c) == re_sub(pattern2, Empty, c)
Rule3(c) == re_sub(pattern3, Empty, c)
Rule4(c) == re_sub(pattern4, Reindent, c)

remove_x_user_id_headers(c) == Rule4(Rule3(Rule2(Rule1(c))))

\* ------------------------------------------------------------ input texts
MaxSegs == 4
MaxMainSegs == 2
MaxRuns == 2

Entry1  == <<X, SP, U, I>>
Entry2  == <<X, U, Q, I, SP, O, SP, E>>
CTEntry == <<T, SP, J>>

Frag ==
    { <<H, SP, LB>>, Entry1, CTEntry,
      <<C>>, <<NL>>, <<SP>>, <<RB>>, <<LB>>, <<Z>> }

\* every concatenation of at most n fragments
RECURSIVE Texts(_)
Texts(n) ==
    IF n = 0 THEN {<<>>}
    ELSE LET prev == Texts(n - 1)
         IN  prev \cup {f \o t : f \in Frag, t \in prev}

\* one mapping literal, laid out on one or several lines, inside other text
Shapes ==
    { pre \o open \o w1 \o e1 \o sep \o e2 \o w3 \o close \o post :
        pre   \in {<<>>, <<H, SP, LB, SP>>},
        open  \in {<<LB>>, <<H, SP, LB>>},
        w1    \in {<<>>, <<NL, SP>>},
        e1    \in {<<>>, CTEntry, Entry1},
        sep   \in {<<>>, <<C, SP>>, <<NL>>, <<C, NL, SP>>},
        e2    \in {<<>>, Entry1, Entry2, CTEntry},
        w3    \in {<<>>, <<C>>, <<NL>>, <<C, NL, SP>>},
        close \in {<<RB>>, <<RB, NL>>, <<RB, C, NL>>},
        post  \in {<<>>, <<NL, SP, Z>>, <<SP, RB, NL>>} }

InputsF    == Texts(MaxSegs) \cup Shapes
InputsMain == Texts(MaxMainSegs) \cup Shapes

\* ------------------------------------------------------------------ state
VARIABLES
    argv,         \* sys.argv
    disk,         \* the text of the file on disk
    disk0,        \* the text of the file when the run started
    content,      \* main's content: the text as read
    cur,          \* remove_x_user_id_headers's content, reassigned by each rule
    stages,       \* the values cur has taken after each rule of this call
    new_content,  \* main's new_content
    pc,           \* position of the run
    stdout,       \* the status lines printed by this run
    status,       \* exit status of this run, -1 while it runs
    opens,        \* the modes of the calls of open() made by this run
    raised,       \* whether an exception was raised in this run
    run,          \* number of the current invocation
    prev          \* the status lines of the previous invocation

vars == <<argv, disk, disk0, content, cur, stages, new_content, pc, stdout,
          status, opens, raised, run, prev>>

Fresh ==
    /\ content = <<>>
    /\ new_content = <<>>
    /\ stdout = <<>>
    /\ status = -1
    /\ opens = <<>>
    /\ raised = FALSE
    /\ run = 1
    /\ prev = <<>>

\* the program is started on a file
Init ==
    /\ argv \in {<<"prog">>, <<"prog", "file">>}
    /\ disk \in InputsMain
    /\ disk0 = disk
    /\ cur = <<>>
    /\ stages = <<>>
    /\ pc = "start"
    /\ Fresh

\* remove_x_user_id_headers is called on a text
InitF ==
    /\ argv = <<"prog", "file">>
    /\ disk \in InputsF
    /\ disk0 = disk
    /\ cur = disk
    /\ stages = <<>>
    /\ pc = "rule1"
    /\ content = disk
    /\ new_content = <<>>
    /\ stdout = <<>>
    /\ status = -1
    /\ opens = <<>>
    /\ raised = FALSE
    /\ run = 1
    /\ prev = <<>>

\* ----------------------------------------------------------------- main
\* if len(sys.argv) < 2: print usage, sys.exit(1); else filename = sys.argv[1]
CheckArgs ==
    /\ pc = "start"
    /\ IF Len(argv) < 2
       THEN /\ stdout' = Append(stdout, "usage")
            /\ status' = 1
            /\ pc' = "exit"
       ELSE /\ pc' = "read"
            /\ UNCHANGED <<stdout, status>>
    /\ UNCHANGED <<argv, disk, disk0, content, cur, stages, new_content,
                   opens, raised, run, prev>>

\* with open(filename, 'r') as f: content = f.read()
\* open may raise (no such file, no permission), read may raise (decoding)
ReadFile ==
    /\ pc = "read"
    /\ \E outcome \in {"ok", "open_raises", "read_raises"} :
         /\ opens' = Append(opens, "r")
         /\ IF outcome = "ok"
            THEN /\ content' = disk
                 /\ cur' = disk
                 /\ stages' = <<>>
                 /\ pc' = "rule1"
                 /\ UNCHANGED raised
            ELSE /\ raised' = TRUE
                 /\ pc' = "except"
                 /\ UNCHANGED <<content, cur, stages>>
    /\ UNCHANGED <<argv, disk, disk0, new_content, stdout, status, run, prev>>

\* one statement pair "patternK = ...; content = re.sub(patternK, ..., content)"
Apply(at, result, next) ==
    /\ pc = at
    /\ cur' = result
    /\ stages' = Append(stages, cur')
    /\ pc' = next
    /\ UNCHANGED <<argv, disk, disk0, content, new_content, stdout, status,
                   opens, raised, run, prev>>

ApplyRule1 == Apply("rule1", Rule1(cur), "rule2")
ApplyRule2 == Apply("rule2", Rule2(cur), "rule3")
ApplyRule3 == Apply("rule3", Rule3(cur), "rule4")
ApplyRule4 == Apply("rule4", Rule4(cur), "return")

\* return content;  new_content = remove_x_user_id_headers(content)
Return ==
    /\ pc = "return"
    /\ new_content' = cur
    /\ pc' = "compare"
    /\ UNCHANGED <<argv, disk, disk0, content, cur, stages, stdout, status,
                   opens, raised, run, prev>>

\* main without the comparison: the file is written in every run
Compare_AlwaysWrite ==
    /\ pc = "compare"
    /\ pc' = "openw"
    /\ UNCHANGED <<argv, disk, disk0, content, cur, stages, new_content,
                   stdout, status, opens, raised, run, prev>>

\* if content != new_content: ... else: print "No changes needed", leave main
Compare ==
    /\ pc = "compare"
    /\ IF content # new_content
       THEN /\ pc' = "openw"
            /\ UNCHANGED <<stdout, status>>
       ELSE /\ stdout' = Append(stdout, "nochange")
            /\ status' = 0
            /\ pc' = "exit"
    /\ UNCHANGED <<argv, disk, disk0, content, cur, stages, new_content,
                   opens, raised, run, prev>>

\* open(filename, 'w'): truncates the file, or raises and leaves it alone
OpenWrite ==
    /\ pc = "openw"
    /\ opens' = Append(opens, "w")
    /\ \E ok \in BOOLEAN :
         IF ok
         THEN /\ disk' = <<>>
              /\ pc' = "write"
              /\ UNCHANGED raised
         ELSE /\ raised' = TRUE
              /\ pc' = "except"
              /\ UNCHANGED disk
    /\ UNCHANGED <<argv, disk0, content, cur, stages, new_content, stdout,
                   status, run, prev>>

\* main with the print of "Fixed" moved inside the with block, before the close
WriteFile_PrintBeforeClose ==
    /\ pc = "write"
    /\ \/ /\ disk' = new_content
          /\ pc' = "fixed"
          /\ UNCHANGED <<raised, stdout>>
       \/ \E k \in 0..Len(new_content) :
            /\ disk' = SubSeq(new_content, 1, k)
            /\ raised' = TRUE
            /\ stdout' = Append(stdout, "fixed")
            /\ pc' = "except"
    /\ UNCHANGED <<argv, disk0, content, cur, stages, new_content,
                   status, opens, run, prev>>

\* f.write(new_content) and the close at the end of the with block: all of
\* the text reaches the file, or an exception leaves some prefix of it there
WriteFile ==
    /\ pc = "write"
    /\ \/ /\ disk' = new_content
          /\ pc' = "fixed"
          /\ UNCHANGED raised
       \/ \E k \in 0..Len(new_content) :
            /\ disk' = SubSeq(new_content, 1, k)
            /\ raised' = TRUE
            /\ pc' = "except"
    /\ UNCHANGED <<argv, disk0, content, cur, stages, new_content, stdout,
                   status, opens, run, prev>>

\* print(f"Fixed {filename}"), then main returns
PrintFixed ==
    /\ pc = "fixed"
    /\ stdout' = Append(stdout, "fixed")
    /\ status' = 0
    /\ pc' = "exit"
    /\ UNCHANGED <<argv, disk, disk0, content, cur, stages, new_content,
                   opens, raised, run, prev>>

\* the handler without its sys.exit(1): main returns after the message
Except_NoExit ==
    /\ pc = "except"
    /\ stdout' = Append(stdout, "error")
    /\ status' = 0
    /\ pc' = "exit"
    /\ UNCHANGED <<argv, disk, disk0, content, cur, stages, new_content,
                   opens, raised, run, prev>>

\* except Exception as e: print(f"Error processing ..."), sys.exit(1)
Except ==
    /\ pc = "except"
    /\ stdout' = Append(stdout, "error")
    /\ status' = 1
    /\ pc' = "exit"
    /\ UNCHANGED <<argv, disk, disk0, content, cur, stages, new_content,
                   opens, raised, run, prev>>

\* the program is invoked again, with the same arguments, on the same file
Rerun ==
    /\ pc = "exit"
    /\ run < MaxRuns
    /\ run' = run + 1
    /\ prev' = stdout
    /\ disk0' = disk
    /\ content' = <<>>
    /\ cur' = <<>>
    /\ stages' = <<>>
    /\ new_content' = <<>>
    /\ stdout' = <<>>
    /\ status' = -1
    /\ opens' = <<>>
    /\ raised' = FALSE
    /\ pc' = "start"
    /\ UNCHANGED <<argv, disk>>

Next ==
    \/ CheckArgs
    \/ ReadFile
    \/ ApplyRule1
    \/ ApplyRule2
    \/ ApplyRule3
    \/ ApplyRule4
    \/ Return
    \/ Compare
    \/ OpenWrite
    \/ WriteFile
    \/ PrintFixed
    \/ Except
    \/ Rerun

Spec == Init /\ [][Next]_vars

\* the four rules of one call of remove_x_user_id_headers
NextF ==
    \/ ApplyRule1
    \/ ApplyRule2
    \/ ApplyRule3
    \/ ApplyRule4
    \/ Return

SpecF == InitF /\ [][NextF]_vars

\* ------------------------------------------------------ helper predicates
Contains(s, tok) == \E k \in 1..Len(s) : s[k] = tok

Positions(s, tok) == {k \in 1..Len(s) : s[k] = tok}

Count(s, tok) == Cardinality(Positions(s, tok))

AllWs(s, a, b) == \A k \in a..b : s[k] \in Whitespace

Spaces(n) == [k \in 1..n |-> SP]

\* the tokens of s that are in set keep, in order
Keep(s, keep) == SelectSeq(s, LAMBDA tok : tok \in keep)

Transformed == pc = "compare"

Messages == {"usage", "fixed", "nochange", "error"}

\* ------------------------------------------------------------ C2
\* C2: in every run of main in which the read succeeded, open(filename, 'w')
\* is called if and only if the transformed text differs from the text read,
\* and when the two are equal the file at exit is what it was at the start.
C2_WriteOnlyOnChange ==
    (pc = "exit" /\ Len(stages) = 4) =>
        /\ Contains(opens, "w") <=> (content # new_content)
        /\ (content = new_content) => (disk = disk0 /\ opens = <<"r">>)

\* a run that left untouched a file holding an x-user-id entry
C2_Witness ==
    /\ pc = "exit"
    /\ Len(stages) = 4
    /\ content = new_content
    /\ Contains(content, X)
    /\ disk = disk0
    /\ stdout = <<"nochange">>

\* ------------------------------------------------------------ C3
\* C3: a run ends with status 1 exactly when no file argument was given or an
\* exception was raised while reading or writing the file, and with status 0
\* otherwise; without a file argument open() is never called.
C3_ExitStatus ==
    /\ (pc = "exit") =>
          /\ status \in {0, 1}
          /\ (status = 1) <=> (Len(argv) < 2 \/ raised)
    /\ (pc # "exit") => (status = -1)
    /\ (Len(argv) < 2) => (opens = <<>>)

\* a run whose write failed after a successful read
C3_Witness ==
    /\ pc = "exit"
    /\ status = 1
    /\ raised
    /\ opens = <<"r", "w">>

\* ------------------------------------------------------------ C4
\* C4: a run that has ended has printed exactly one of the four status lines,
\* a run never prints two, and "Fixed" is printed only once the new text is
\* wholly on disk.
C4_OneStatusLine ==
    /\ Len(stdout) <= 1
    /\ (pc = "exit") => (Len(stdout) = 1 /\ stdout[1] \in Messages)
    /\ (pc # "exit") => (stdout = <<>>)
    /\ Contains(stdout, "fixed") =>
          (disk = new_content /\ opens = <<"r", "w">> /\ ~raised)

\* a run whose write failed part-way: one line, the error
C4_Witness ==
    /\ pc = "exit"
    /\ opens = <<"r", "w">>
    /\ raised
    /\ disk # new_content
    /\ stdout = <<"error">>

\* ---------------------------------------------------- shapes of the text
MatchesAt(p, s, i) == Match(p, s, i, 0) # NoMatch

HasMatch(p, s) == \E i \in 1..Len(s) : MatchesAt(p, s, i)

\* no rule matches anywhere in s
Clean(s) ==
    /\ ~HasMatch(pattern1, s)
    /\ ~HasMatch(pattern2, s)
    /\ ~HasMatch(pattern3, s)
    /\ ~HasMatch(pattern4, s)

\* s[i..j] is a mapping { 'Content-Type': 'application/json', } whose value
\* ends at b, whose comma is at b+1, and whose closing brace at j stands on a
\* later line
DanglingAt(s, i, b, j) ==
    /\ s[i] = LB /\ s[b] = J /\ s[j] = RB
    /\ i < b /\ b + 1 < j /\ s[b + 1] = C
    /\ \E a \in (i + 1)..(b - 1) :
         /\ s[a] = T
         /\ AllWs(s, i + 1, a - 1)
         /\ AllWs(s, a + 1, b - 1)
    /\ AllWs(s, b + 2, j - 1)
    /\ \E k \in (b + 2)..(j - 1) : s[k] = NL

HasDangling(s) ==
    \E i \in Positions(s, LB), b \in Positions(s, J), j \in Positions(s, RB) :
        DanglingAt(s, i, b, j)

\* s[i..j] is the same mapping without a comma after its entry
PlainAt(s, i, j) ==
    /\ s[i] = LB /\ s[j] = RB
    /\ \E a \in (i + 1)..(j - 1), b \in (i + 1)..(j - 1) :
         /\ a < b /\ s[a] = T /\ s[b] = J
         /\ AllWs(s, i + 1, a - 1)
         /\ AllWs(s, a + 1, b - 1)
         /\ AllWs(s, b + 1, j - 1)

\* ------------------------------------------------------------ C5
\* C5 as stated: a text that contains neither 'x-user-id' nor "headers:" is
\* returned unchanged.
C5_Original ==
    (Transformed /\ ~Contains(content, X) /\ ~Contains(content, H)) =>
        new_content = content

\* C5 as amended: a text that contains neither 'x-user-id', nor "headers:",
\* nor a mapping made of one Content-Type entry, a comma and a closing brace on
\* a later line, is returned unchanged.
C5_NoOpOnUnrelated ==
    (/\ Transformed
     /\ ~Contains(content, X)
     /\ ~Contains(content, H)
     /\ ~HasDangling(content)) =>
        new_content = content

\* an unrelated text with braces, a Content-Type entry, a comma and a line break
C5_Witness ==
    /\ Transformed
    /\ ~Contains(content, X)
    /\ ~Contains(content, H)
    /\ ~HasDangling(content)
    /\ Contains(content, LB) /\ Contains(content, RB)
    /\ Contains(content, T) /\ Contains(content, C) /\ Contains(content, NL)
    /\ new_content = content

\* ------------------------------------------------------------ C8
\* C8: every mapping of the text after rules 1-3 made of one Content-Type
\* entry, a comma, a line break and the closing brace comes out of rule 4 as
\* the same entry, a line break, 8 spaces and the brace, and the text before
\* and after it is rewritten by rule 4 on its own; the same mapping without
\* the comma comes out as it went in.
C8_Rule4Rewrite ==
    Transformed =>
        LET t   == stages[3]
            out == stages[4]
            n   == Len(t)
        IN  /\ new_content = out
            /\ \A i \in Positions(t, LB), b \in Positions(t, J),
                  j \in Positions(t, RB) :
                  DanglingAt(t, i, b, j) =>
                     out = Rule4(SubSeq(t, 1, i - 1)) \o SubSeq(t, i, b)
                             \o <<NL>> \o Spaces(8) \o <<RB>>
                             \o Rule4(SubSeq(t, j + 1, n))
            /\ \A i \in Positions(t, LB), j \in Positions(t, RB) :
                  PlainAt(t, i, j) =>
                     out = Rule4(SubSeq(t, 1, i - 1)) \o SubSeq(t, i, j)
                             \o Rule4(SubSeq(t, j + 1, n))

\* a mapping with a trailing comma whose brace was indented by one space
C8_Witness ==
    /\ Transformed
    /\ \E i \in Positions(stages[3], LB), b \in Positions(stages[3], J),
          j \in Positions(stages[3], RB) :
          /\ DanglingAt(stages[3], i, b, j)
          /\ stages[3][j - 1] = SP
          /\ stages[3][j - 2] = NL
    /\ Count(new_content, C) < Count(stages[3], C)

\* ------------------------------------------------------------ C10
\* C10: the call applies rule 1, rule 2, rule 3, rule 4 in this order, each
\* as a substitution of every match in the whole result of the rule before.
C10_FixedOrder ==
    Transformed =>
        /\ Len(stages) = 4
        /\ stages[1] = re_sub(pattern1, Empty, content)
        /\ stages[2] = re_sub(pattern2, Empty, stages[1])
        /\ stages[3] = re_sub(pattern3, Empty, stages[2])
        /\ stages[4] = re_sub(pattern4, Reindent, stages[3])
        /\ new_content = stages[4]

\* an input on which rule 3 before rule 2 gives another result
C10_Witness ==
    /\ Transformed
    /\ Len(stages) = 4
    /\ new_content # Rule4(Rule2(Rule3(Rule1(content))))

\* ------------------------------------------------------------ C1
\* C1: transforming the result of a call again gives the same text, and a
\* run that follows a run that has just rewritten the file does not write it.
C1_Idempotent ==
    /\ Transformed =>
          remove_x_user_id_headers(new_content) = new_content
    /\ (run > 1 /\ prev = <<"fixed">>) => pc \notin {"openw", "write", "fixed"}

\* ------------------------------------------------------------ C6
\* a well-formed user-id entry starts at i
EntryAt(s, i) == s[i] = X /\ MatchesAt(UserIdEntry, s, i)

\* position i lies inside a pair of braces that also holds a Content-Type entry
InLargerMapping(s, i) ==
    \E l \in 1..(i - 1), r \in (i + 1)..Len(s) :
        /\ s[l] = LB /\ s[r] = RB
        /\ \A k \in (l + 1)..(r - 1) : s[k] \notin {LB, RB}
        /\ \E a \in (l + 1)..(r - 1), b \in (l + 1)..(r - 1) :
             a < b /\ s[a] = T /\ s[b] = J /\ AllWs(s, a + 1, b - 1)

\* C6: when every user-id entry of the text is an entry of a mapping that has
\* another entry, whatever separates it from the entry before, the result
\* holds no user-id entry and the other entries are as they were.
C6_Rule2RemovesEveryEntry ==
    (/\ Transformed
     /\ Contains(content, X)
     /\ \A i \in Positions(content, X) :
           EntryAt(content, i) /\ InLargerMapping(content, i)) =>
        /\ ~Contains(new_content, X)
        /\ Keep(new_content, {T, J}) = Keep(content, {T, J})

\* ------------------------------------------------------------ C7
\* s[i..j] is a headers declaration whose value is one user-id entry, followed
\* by an optional comma and one line break
DeclAt(s, i, j) ==
    /\ s[i] = H
    /\ s[j] = NL
    /\ s[j - 1] \in {RB, C}
    /\ Match(pattern1, SubSeq(s, i, j), 1, 0)[1] = j - i + 2

\* C7: when the text is P, such a declaration, S, and no rule matches in P or
\* in S, the result is P followed by S.
C7_Rule1RemovesExactly ==
    Transformed =>
        \A i \in Positions(content, H), j \in Positions(content, NL) :
            (/\ i < j
             /\ DeclAt(content, i, j)
             /\ Clean(SubSeq(content, 1, i - 1))
             /\ Clean(SubSeq(content, j + 1, Len(content)))) =>
                new_content = SubSeq(content, 1, i - 1)
                                \o SubSeq(content, j + 1, Len(content))

\* ------------------------------------------------------------ C9
\* an empty headers declaration starts at i
EmptyDeclAt(s, i) ==
    /\ s[i] = H
    /\ MatchesAt(<<Lit(H), Ws, Lit(LB), Ws, Lit(RB)>>, s, i)

\* C9: every empty headers declaration of the text after rules 1 and 2 is
\* missing from the result: the result has as many "headers:" fewer.
C9_Rule3CollapsesEvery ==
    Transformed =>
        Count(new_content, H) =
            Count(stages[2], H)
              - Cardinality({i \in Positions(stages[2], H) :
                               EmptyDeclAt(stages[2], i)})

====
